---- MODULE Spec2Model ----
(***************************************************************************)
(* Model of the seaview task store (DBOperations) and of the example-data  *)
(* generator (DBExampleProjectSetup.generate_example_data).                *)
(*                                                                         *)
(* Time is counted in half days since date.today(): one day is Day = 2     *)
(* units, so that the generator's half-day duration steps are integers.    *)
(* A table of the store is the sequence of the ids its serial column has   *)
(* handed out: position id holds the row, or NoRow when the insert failed  *)
(* or the row was deleted (a serial value is never handed out twice).      *)
(* Of resources, portfolios, programmes and projects only the existence of *)
(* a row is kept: nothing ever reads their columns back.                   *)
(***************************************************************************)
EXTENDS Integers, Sequences, FiniteSets, TLC

VARIABLES
    nResources,             \* DBExampleProjectSetup.nResources
    nPortfolios,            \* DBExampleProjectSetup.nPortfolios
    nProgrammes,            \* DBExampleProjectSetup.nProgrammes
    nProjects,              \* DBExampleProjectSetup.nProjects
    nTasks,                 \* DBExampleProjectSetup.nTasks
    resources,              \* store: the rows of seaview.resources, by id
    portfolios,             \* store: the rows of seaview.portfolios, by id
    programmes,             \* store: the rows of seaview.programmes, by id
    projects,               \* store: the rows of seaview.projects, by id
    tasks,                  \* store: the rows of seaview.tasks, by id
    deps,                   \* store: the rows of seaview.task_dependencies
    i,                      \* generator local: passes done in the current creation loop
    links_left,             \* generator local: passes left in the resource-link loop
    task_hierarchy,         \* generator local: task id -> list of task ids
    task_project_mapping,   \* generator local: task id -> project id
    task_id,                \* generator local: the edge loop's task
    dependent_task_id,      \* generator local: the chosen predecessor
    task_start_date,        \* generator local: get_task_start_date(task_id)
    predecessor_end_date,   \* generator local: get_task_end_date(dependent_task_id)
    pc,                     \* position of the generator, or of the store's client
    log,                    \* the last line the generator printed about an edge
    call                    \* the last call made on the store

config == <<nResources, nPortfolios, nProgrammes, nProjects, nTasks>>

containers == <<resources, portfolios, programmes, projects>>

edge_locals == <<task_id, dependent_task_id, task_start_date, predecessor_end_date>>

vars == <<config, containers, tasks, deps, i, links_left, task_hierarchy,
          task_project_mapping, edge_locals, pc, log, call>>

\* ---------------------------------------------------------------- bounds
MaxTasks == 3
\* the largest nTasks of the runs SpecCycle explores
CycleTasks == 4
MaxProjects == 2
\* random.randint(0, 30) days of start offset, cut down to 0..MaxOffset
MaxOffset == 1
\* range(1, 21) half-day duration steps, cut down to 1..MaxDurSteps
MaxDurSteps == 2
\* the largest nResources, nPortfolios and nProgrammes
MaxCount == 1
\* the most ids a table's serial column has handed out before a run
MaxUsed == 1
\* the most tasks the store's client adds
StoreTasks == 2

\* ------------------------------------------------------------- constants
Day == 2
\* Column(Double, default=1.0), in half days
DefaultDuration == 2
\* parent_id is NULL
NoTask == 0
\* timedelta(days=1) added to the predecessor's end date
DependencyGap == 2
\* nPortfolios=1, nProgrammes=1: the counts __init__ defaults to
DefaultCount == 1
\* num_resources = random.randint(1, 3)
MaxResourceLinks == 3
\* owner_id=1 and user_id=1, as the generator hard-codes them
FirstResource == 1

\* ------------------------------------------------------------ date helpers
\* date + timedelta(days=steps * 0.5): a datetime.date moves by whole days
\* only, the fraction of a day is dropped.
DatePlusTimedelta(d, halfdays) == d + (halfdays \div Day) * Day

\* datetime + timedelta(days=duration): exact.
DateTimePlusTimedelta(dt, halfdays) == dt + halfdays

SetMax(S) == CHOOSE x \in S : \A y \in S : y <= x


Range(seq) == {seq[k] : k \in 1..Len(seq)}

\* None (an unset column, or the value a getter returns for a missing row)
None == -1

\* ------------------------------------------------------------- store rows
\* an id whose row is not in the table
NoRow == [row |-> "none"]

\* a row of a table whose columns are never read back
SomeRow == [row |-> "some"]

\* query(...).filter(id == id).first() finds a row
RowExists(rows, id) == id \in 1..Len(rows) /\ rows[id] # NoRow

\* session.add + commit: the row is stored when every foreign key it holds
\* points at a row; otherwise IntegrityError, rollback, and the id is spent.
InsertRow(rows, row, foreign_keys_hold) ==
    Append(rows, IF foreign_keys_hold THEN row ELSE NoRow)

TaskIds == {id \in 1..Len(tasks) : tasks[id] # NoRow}

\* ------------------------------------------------------- store operations
\* add_resource: the row references nothing.
AddResource(resource_rows) == InsertRow(resource_rows, SomeRow, TRUE)

\* add_portfolio: owner_id references resources.
AddPortfolio(portfolio_rows, resource_rows, owner_id) ==
    InsertRow(portfolio_rows, SomeRow, RowExists(resource_rows, owner_id))

\* add_programme: owner_id references resources, portfolio_id portfolios.
AddProgramme(programme_rows, resource_rows, portfolio_rows, owner_id, portfolio_id) ==
    InsertRow(programme_rows, SomeRow,
              RowExists(resource_rows, owner_id) /\ RowExists(portfolio_rows, portfolio_id))

\* add_project: owner_id references resources; of programme_id and
\* portfolio_id the one that is not None references its table.
AddProject(project_rows, resource_rows, portfolio_rows, programme_rows, owner_id, portfolio_id, programme_id) ==
    InsertRow(project_rows, SomeRow,
              /\ RowExists(resource_rows, owner_id)
              /\ portfolio_id # None => RowExists(portfolio_rows, portfolio_id)
              /\ programme_id # None => RowExists(programme_rows, programme_id))

\* CXTask(...) row as add_task builds it; a duration of None takes the
\* column default.
NewTask(project_id, start_date, end_date, duration) ==
    [project_id |-> project_id,
     start_date |-> start_date,
     end_date   |-> end_date,
     duration   |-> IF duration = None THEN DefaultDuration ELSE duration,
     parent_id  |-> NoTask]

\* add_task: project_id references projects.
AddTask(ts, project_rows, project_id, start_date, end_date, duration) ==
    InsertRow(ts, NewTask(project_id, start_date, end_date, duration),
              RowExists(project_rows, project_id))

GetTaskProjectId(ts, id) ==
    IF RowExists(ts, id) THEN ts[id].project_id ELSE None

GetTaskStartDate(ts, id) ==
    IF RowExists(ts, id) THEN ts[id].start_date ELSE None

GetTaskEndDate(ts, id) ==
    IF RowExists(ts, id) THEN ts[id].end_date ELSE None

GetTaskDuration(ts, id) ==
    IF RowExists(ts, id) THEN ts[id].duration ELSE None

\* mutant: the query has no filter
ListTasksByProjectUnfiltered(ts, project_id) ==
    SelectSeq([id \in 1..Len(ts) |-> id], LAMBDA id : ts[id] # NoRow)

\* list_tasks_by_project: the ids of the rows the filter keeps, in the order
\* the store lists rows (ascending id).
ListTasksByProject(ts, project_id) ==
    SelectSeq([id \in 1..Len(ts) |-> id],
              LAMBDA id : ts[id] # NoRow /\ ts[id].project_id = project_id)

\* mutant: a task that is not found is created
UpdateTaskProjectUpsert(ts, id, project_id) ==
    IF RowExists(ts, id)
    THEN [ts EXCEPT ![id].project_id = project_id]
    ELSE Append(ts, NewTask(project_id, None, None, None))

UpdateTaskProject(ts, id, project_id) ==
    IF RowExists(ts, id) THEN [ts EXCEPT ![id].project_id = project_id] ELSE ts

UpdateTaskStartDate(ts, id, new_start_date) ==
    IF RowExists(ts, id) THEN [ts EXCEPT ![id].start_date = new_start_date] ELSE ts

UpdateTaskEndDate(ts, id, new_end_date) ==
    IF RowExists(ts, id) THEN [ts EXCEPT ![id].end_date = new_end_date] ELSE ts

UpdateTaskDuration(ts, id, new_duration) ==
    IF RowExists(ts, id) THEN [ts EXCEPT ![id].duration = new_duration] ELSE ts

\* db_operations.py imports only "date" from datetime; the "timedelta" of
\* generate_example_data is local to that method.
TimedeltaIsImported == FALSE

\* the tasks the loop body of recalculate_task_end_time runs for:
\* "if task.start_date and task.duration", which a duration of 0 fails
RecalculatedTasks(ts) ==
    {id \in 1..Len(ts) : /\ ts[id] # NoRow
                         /\ ts[id].start_date # None
                         /\ ts[id].duration \notin {None, 0}}

\* recalculate_task_end_time: the first task the body runs for evaluates
\* timedelta(...), a NameError, and the except branch rolls back; with no such
\* task the commit stores nothing new.
RecalculateTaskEndTime(ts) ==
    IF RecalculatedTasks(ts) # {} /\ ~TimedeltaIsImported
    THEN ts
    ELSE [id \in 1..Len(ts) |->
             IF id \in RecalculatedTasks(ts)
             THEN [ts[id] EXCEPT !.end_date =
                      DatePlusTimedelta(ts[id].start_date, ts[id].duration)]
             ELSE ts[id]]

\* add_task_dependency: both ids reference tasks, and (predecessor_id,
\* successor_id) is the primary key, so a second insert of the same pair is
\* rolled back.
AddTaskDependency(ds, ts, predecessor_id, successor_id) ==
    IF RowExists(ts, predecessor_id) /\ RowExists(ts, successor_id)
    THEN ds \cup {<<predecessor_id, successor_id>>}
    ELSE ds

\* mutant: the except branch does not roll back, the writes made before the
\* exception stay
SetTaskHierarchyNoRollback(ts, parent_id, child_id) ==
    IF ~RowExists(ts, parent_id) \/ ~RowExists(ts, child_id) THEN ts
    ELSE
    LET linked == [ts EXCEPT ![child_id].parent_id = parent_id] IN
    IF linked[child_id].start_date = None \/ linked[parent_id].start_date = None
    THEN linked
    ELSE
    LET clamped ==
            IF linked[child_id].start_date < linked[parent_id].start_date
            THEN [linked EXCEPT ![child_id].start_date = linked[parent_id].start_date]
            ELSE linked
        children_ends ==
            {clamped[c].end_date : c \in {x \in 1..Len(ts) :
                /\ clamped[x] # NoRow
                /\ clamped[x].parent_id = parent_id
                /\ clamped[x].end_date # None}}
    IN
    IF clamped[child_id].end_date = None
    THEN IF children_ends = {}
         THEN [clamped EXCEPT ![parent_id].end_date = None]
         ELSE clamped
    ELSE [clamped EXCEPT ![parent_id].end_date =
              SetMax({clamped[child_id].end_date} \cup children_ends)]

\* set_task_hierarchy, the whole transaction.  Comparing None with a date
\* raises, and the except branch rolls everything back.
SetTaskHierarchy(ts, parent_id, child_id) ==
    IF ~RowExists(ts, parent_id) \/ ~RowExists(ts, child_id) THEN ts
    ELSE
    LET linked == [ts EXCEPT ![child_id].parent_id = parent_id] IN
    IF linked[child_id].start_date = None \/ linked[parent_id].start_date = None
    THEN ts
    ELSE
    LET clamped ==
            IF linked[child_id].start_date < linked[parent_id].start_date
            THEN [linked EXCEPT ![child_id].start_date = linked[parent_id].start_date]
            ELSE linked
        children_ends ==
            {clamped[c].end_date : c \in {x \in 1..Len(ts) :
                /\ clamped[x] # NoRow
                /\ clamped[x].parent_id = parent_id
                /\ clamped[x].end_date # None}}
    IN
    IF clamped[child_id].end_date = None
    THEN IF children_ends = {}
         THEN [clamped EXCEPT ![parent_id].end_date = None]
         ELSE ts
    ELSE [clamped EXCEPT ![parent_id].end_date =
              SetMax({clamped[child_id].end_date} \cup children_ends)]

\* ------------------------------------------------- generator: pure parts
\* finish_date = start_date + timedelta(days=duration), on datetime.date values
FinishDate(start_date, duration_steps) == DatePlusTimedelta(start_date, duration_steps)

\* mutant: candidates are taken from every project
SameProjectTaskIdsAnyProject(mapping, t) ==
    DOMAIN mapping

\* same_project_task_ids
SameProjectTaskIds(mapping, t) ==
    {x \in DOMAIN mapping : mapping[x] = mapping[t]}

\* The while loop of the dependency branch: starting at the task, follow the
\* first entry of each list.  It only ends at a task with an empty list (or
\* at an id that is no key); revisiting a task means the loop never ends.
RECURSIVE ExcludedWalk(_, _, _)
ExcludedWalk(th, current_task, excluded) ==
    IF current_task \notin DOMAIN th
    THEN [hangs |-> FALSE, set |-> excluded]
    ELSE IF current_task \in excluded
    THEN [hangs |-> TRUE, set |-> excluded]
    ELSE IF th[current_task] = <<>>
    THEN [hangs |-> FALSE, set |-> excluded \cup {current_task}]
    ELSE ExcludedWalk(th, th[current_task][1], excluded \cup {current_task})

ExcludedTasks(th, t) == ExcludedWalk(th, t, {})

\* mutant: the candidates are not restricted to the task's project
PotentialDependentTasksAnyProject(th, mapping, t) ==
    DOMAIN mapping \ ExcludedTasks(th, t).set

\* mutant: only the task itself is taken out of the candidates
PotentialDependentTasksOnlySelf(th, mapping, t) ==
    SameProjectTaskIds(mapping, t) \ {t}

PotentialDependentTasks(th, mapping, t) ==
    SameProjectTaskIds(mapping, t) \ ExcludedTasks(th, t).set

\* mutant: the check for an edge already listed under the task never fires
CircularDependencyNever(th, t, d) ==
    FALSE

\* if task_id in task_hierarchy and dependent_task_id in task_hierarchy[task_id]
CircularDependency(th, t, d) ==
    t \in DOMAIN th /\ d \in Range(th[t])

\* mutant: the task itself is not taken out of the candidates
PotentialChildTasksWithSelf(mapping, t) ==
    SameProjectTaskIds(mapping, t)

PotentialChildTasks(mapping, t) ==
    SameProjectTaskIds(mapping, t) \ {t}

\* The while loop of the hierarchy branch: starting at the child, collect
\* every entry of the current list, then follow its first entry.
RECURSIVE ParentsWalk(_, _, _, _)
ParentsWalk(th, current_child, visited, existing_parents) ==
    IF current_child \notin DOMAIN th
    THEN [hangs |-> FALSE, set |-> existing_parents]
    ELSE IF current_child \in visited
    THEN [hangs |-> TRUE, set |-> existing_parents]
    ELSE IF th[current_child] = <<>>
    THEN [hangs |-> FALSE, set |-> existing_parents]
    ELSE ParentsWalk(th, th[current_child][1], visited \cup {current_child},
                     existing_parents \cup Range(th[current_child]))

ExistingParents(th, c) == ParentsWalk(th, c, {}, {})

\* mutant: the successor is moved to the predecessor's end, without the day
AdjustedStartDateNoGap(successor_start, predecessor_end) ==
    IF successor_start <= predecessor_end
    THEN predecessor_end
    ELSE successor_start

\* mutant: the successor is pushed back by a day instead of being set
AdjustedStartDateIncrement(successor_start, predecessor_end) ==
    IF successor_start <= predecessor_end
    THEN DateTimePlusTimedelta(successor_start, DependencyGap)
    ELSE successor_start

\* mutant: the day is taken off the predecessor's end instead of added
AdjustedStartDateDayBefore(successor_start, predecessor_end) ==
    IF successor_start <= predecessor_end
    THEN predecessor_end - DependencyGap
    ELSE successor_start

\* if task_start_date <= predecessor_end_date: start = predecessor_end_date + 1 day
AdjustedStartDate(successor_start, predecessor_end) ==
    IF successor_start <= predecessor_end
    THEN DateTimePlusTimedelta(predecessor_end, DependencyGap)
    ELSE successor_start

\* recalculated_end_date = task_start_date + timedelta(days=task_duration)
RecalculatedEndDate(start_date, task_duration) ==
    DateTimePlusTimedelta(start_date, task_duration)

NoLog == [kind |-> "none", a |-> NoTask, b |-> NoTask]

\* ------------------------------------------------------------ store calls
\* A call on the store: the operation, its id arguments (a task id first,
\* where there is one) and what it returned.
Call(op, a, b, result) == [op |-> op, a |-> a, b |-> b, result |-> result]

NoCall == Call("none", NoTask, NoTask, None)

\* ------------------------------------------------------------------ Init
\* a table whose serial column has handed out `used` ids, all rows gone
UsedTable(used) == [id \in 1..used |-> NoRow]

\* The state on entry to generate_example_data, for a configuration drawn
\* from the given sets of counts, on a store whose tables have handed out
\* one of used_counts ids before (0: a freshly regenerated schema).
InitWith(resource_counts, container_counts, project_counts, task_counts, used_counts) ==
    /\ nResources \in resource_counts
    /\ nPortfolios \in container_counts
    /\ nProgrammes \in container_counts
    /\ nProjects \in project_counts
    /\ nTasks \in task_counts
    /\ \E used \in used_counts :
         /\ resources = UsedTable(used)
         /\ portfolios = UsedTable(used)
         /\ programmes = UsedTable(used)
         /\ projects = UsedTable(used)
         /\ tasks = UsedTable(used)
    /\ deps = {}
    /\ i = 0
    /\ links_left = 0
    /\ task_hierarchy = <<>>
    /\ task_project_mapping = <<>>
    /\ task_id = NoTask
    /\ dependent_task_id = NoTask
    /\ task_start_date = None
    /\ predecessor_end_date = None
    /\ pc = "resources"
    /\ log = NoLog
    /\ call = NoCall

\* Runs of at most max_tasks tasks on a freshly regenerated schema, as
\* main.py sets it up, with every count positive.
InitUpTo(max_tasks) ==
    InitWith({MaxCount}, {DefaultCount}, 1..MaxProjects, 0..max_tasks, {0})

Init == InitUpTo(MaxTasks)

\* The same, for runs of up to CycleTasks tasks.
InitCycle == InitUpTo(CycleTasks)

\* Every configuration of counts, zero included, on a fresh schema.
InitConfig ==
    InitWith(0..MaxCount, 0..MaxCount, 0..MaxProjects, 0..MaxTasks, {0})

\* Positive counts, on a store that may have handed out ids before.
InitUsed ==
    InitWith({MaxCount}, {DefaultCount}, 1..MaxProjects, 0..MaxTasks, 0..MaxUsed)

\* a table that holds `earlier` rows, written by an earlier run
EarlierTable(earlier, row) == [id \in 1..earlier |-> row]

\* a task as an earlier run left it: in the first project, starting today,
\* ending a day later
EarlierTask == NewTask(1, 0, RecalculatedEndDate(0, DefaultDuration), None)

\* Positive counts, on a store that still holds the records of an earlier
\* run (main.py with regenerate_schema left out): as many rows in every table.
InitRerun ==
    /\ nResources = MaxCount
    /\ nPortfolios = DefaultCount
    /\ nProgrammes = DefaultCount
    /\ nProjects \in 1..MaxProjects
    /\ nTasks \in 0..MaxTasks
    /\ \E earlier \in 1..MaxUsed :
         /\ resources = EarlierTable(earlier, SomeRow)
         /\ portfolios = EarlierTable(earlier, SomeRow)
         /\ programmes = EarlierTable(earlier, SomeRow)
         /\ projects = EarlierTable(earlier, SomeRow)
         /\ tasks = EarlierTable(earlier, EarlierTask)
    /\ deps = {}
    /\ i = 0
    /\ links_left = 0
    /\ task_hierarchy = <<>>
    /\ task_project_mapping = <<>>
    /\ task_id = NoTask
    /\ dependent_task_id = NoTask
    /\ task_start_date = None
    /\ predecessor_end_date = None
    /\ pc = "resources"
    /\ log = NoLog
    /\ call = NoCall

\* --------------------------------------------------------------- actions
\* An exception leaves generate_example_data: nothing else changes.
Crash ==
    /\ pc' = "crashed"
    /\ UNCHANGED <<config, containers, tasks, deps, i, links_left, task_hierarchy,
                   task_project_mapping, edge_locals, log, call>>

\* One pass of "for i in range(self.nResources)".
CreateResource ==
    /\ pc = "resources"
    /\ i < nResources
    /\ resources' = AddResource(resources)
    /\ i' = i + 1
    /\ call' = Call("add_resource", i + 1, NoTask, None)
    /\ UNCHANGED <<config, portfolios, programmes, projects, tasks, deps, links_left,
                   task_hierarchy, task_project_mapping, edge_locals, pc, log>>

\* One pass of "for i in range(self.nPortfolios)".
CreatePortfolio ==
    /\ pc = "portfolios"
    /\ i < nPortfolios
    /\ portfolios' = AddPortfolio(portfolios, resources, FirstResource)
    /\ i' = i + 1
    /\ call' = Call("add_portfolio", i + 1, FirstResource, None)
    /\ UNCHANGED <<config, resources, programmes, projects, tasks, deps, links_left,
                   task_hierarchy, task_project_mapping, edge_locals, pc, log>>

\* One pass of "for i in range(self.nProgrammes)"; random.choice of an empty
\* range raises IndexError.
CreateProgramme ==
    /\ pc = "programmes"
    /\ i < nProgrammes
    /\ IF nPortfolios = 0 \/ nResources = 0
       THEN Crash
       ELSE \E portfolio_id \in 1..nPortfolios, owner_id \in 1..nResources :
              /\ programmes' = AddProgramme(programmes, resources, portfolios,
                                            owner_id, portfolio_id)
              /\ i' = i + 1
              /\ call' = Call("add_programme", i + 1, portfolio_id, None)
              /\ UNCHANGED <<config, resources, portfolios, projects, tasks, deps,
                             links_left, task_hierarchy, task_project_mapping,
                             edge_locals, pc, log>>

\* One pass of "for i in range(self.nProjects)": add_project under a
\* programme or under a portfolio, then the project's gantt permissions and
\* view options (rows of tables that nothing reads back).
CreateProject ==
    /\ pc = "projects"
    /\ i < nProjects
    /\ \E under_programme \in BOOLEAN :
         IF \/ nResources = 0
            \/ under_programme /\ nProgrammes = 0
            \/ ~under_programme /\ nPortfolios = 0
         THEN Crash
         ELSE \E owner_id \in 1..nResources,
                 container_id \in 1..(IF under_programme THEN nProgrammes ELSE nPortfolios) :
                /\ projects' = AddProject(projects, resources, portfolios, programmes,
                                  owner_id,
                                  IF under_programme THEN None ELSE container_id,
                                  IF under_programme THEN container_id ELSE None)
                /\ i' = i + 1
                /\ call' = Call("add_gantt_user_project_view_options", i + 1,
                                FirstResource, None)
                /\ UNCHANGED <<config, resources, portfolios, programmes, tasks, deps,
                               links_left, task_hierarchy, task_project_mapping,
                               edge_locals, pc, log>>

\* A creation loop is exhausted: the next one starts.
NextCreationLoop ==
    /\ \/ pc = "resources" /\ i = nResources /\ pc' = "portfolios"
       \/ pc = "portfolios" /\ i = nPortfolios /\ pc' = "programmes"
       \/ pc = "programmes" /\ i = nProgrammes /\ pc' = "projects"
       \/ pc = "projects" /\ i = nProjects /\ pc' = "tasks"
    /\ i' = 0
    /\ UNCHANGED <<config, containers, tasks, deps, links_left, task_hierarchy,
                   task_project_mapping, edge_locals, log, call>>

\* One pass of "for i in range(self.nTasks)": draw, add_task, book-keeping,
\* and the draw of num_resources.
CreateTask ==
    /\ pc = "tasks"
    /\ i < nTasks
    /\ IF nProjects = 0
       THEN Crash
       ELSE \E project_id \in 1..nProjects, offset \in 0..MaxOffset,
               steps \in 1..MaxDurSteps, num_resources \in 1..MaxResourceLinks :
              LET start_date == offset * Day IN
              /\ tasks' = AddTask(tasks, projects, project_id, start_date,
                                  FinishDate(start_date, steps), None)
              /\ task_hierarchy' = Append(task_hierarchy, <<>>)
              /\ task_project_mapping' = Append(task_project_mapping, project_id)
              /\ i' = i + 1
              /\ links_left' = num_resources
              /\ pc' = "links"
              /\ call' = Call("add_task", i + 1, project_id, None)
              /\ UNCHANGED <<config, containers, deps, edge_locals, log>>

\* One pass of "for _ in range(num_resources)": add_task_resource_link (rows
\* of a table that nothing reads back); after the last pass the task loop
\* goes on.
CreateTaskResourceLink ==
    /\ pc = "links"
    /\ IF nResources = 0
       THEN Crash
       ELSE \E resource_id \in 1..nResources :
              /\ call' = Call("add_task_resource_link", i, resource_id, None)
              /\ links_left' = links_left - 1
              /\ pc' = IF links_left = 1 THEN "tasks" ELSE "links"
              /\ UNCHANGED <<config, containers, tasks, deps, i, task_hierarchy,
                             task_project_mapping, edge_locals, log>>

\* The task loop is exhausted; "for task_id in task_ids" starts.
StartEdgeLoop ==
    /\ pc = "tasks"
    /\ i = nTasks
    /\ pc' = IF nTasks = 0 THEN "done" ELSE "edge"
    /\ task_id' = IF nTasks = 0 THEN NoTask ELSE 1
    /\ UNCHANGED <<config, containers, tasks, deps, i, links_left, task_hierarchy,
                   task_project_mapping, dependent_task_id,
                   task_start_date, predecessor_end_date, log, call>>

\* The loop moves to the next task id, or ends.  The locals of the finished
\* iteration are assigned again before they are read again: they are cleared.
NextIteration ==
    /\ task_id' = IF task_id < nTasks THEN task_id + 1 ELSE task_id
    /\ pc' = IF task_id < nTasks THEN "edge" ELSE "done"
    /\ dependent_task_id' = NoTask
    /\ task_start_date' = None
    /\ predecessor_end_date' = None
    /\ UNCHANGED <<config, containers, i, links_left>>

\* what a step of the edge loop that only moves pc leaves alone
EdgeLoopFrame ==
    UNCHANGED <<config, containers, tasks, deps, i, links_left, task_hierarchy,
                task_project_mapping, edge_locals, log, call>>

\* random.random() > 0.5, and no task is left to depend on: fall through to
\* the recalculation.  A walk that never ends leaves the generator hung.
DependencyNoCandidate ==
    /\ pc = "edge"
    /\ IF ExcludedTasks(task_hierarchy, task_id).hangs
       THEN pc' = "hung"
       ELSE /\ PotentialDependentTasks(task_hierarchy, task_project_mapping, task_id) = {}
            /\ pc' = "recalc"
    /\ EdgeLoopFrame

\* mutant: the edge is recorded before the report and the continue
DependencyCircularAfterAdd(d) ==
    /\ CircularDependency(task_hierarchy, task_id, d)
    /\ deps' = AddTaskDependency(deps, tasks, d, task_id)
    /\ task_hierarchy' = [task_hierarchy EXCEPT ![d] = Append(@, task_id)]
    /\ log' = [kind |-> "circular_dependency", a |-> task_id, b |-> d]
    /\ NextIteration
    /\ UNCHANGED <<tasks, task_project_mapping, call>>

\* The chosen predecessor is already listed under the task: report, continue.
DependencyCircular(d) ==
    /\ CircularDependency(task_hierarchy, task_id, d)
    /\ log' = [kind |-> "circular_dependency", a |-> task_id, b |-> d]
    /\ NextIteration
    /\ UNCHANGED <<tasks, deps, task_hierarchy, task_project_mapping, call>>

\* update_task_project(dependent_task_id, task_project_id) and the mapping.
DependencyUpdateProject(d) ==
    /\ ~CircularDependency(task_hierarchy, task_id, d)
    /\ tasks' = UpdateTaskProject(tasks, d, task_project_mapping[task_id])
    /\ task_project_mapping' =
           [task_project_mapping EXCEPT ![d] = task_project_mapping[task_id]]
    /\ dependent_task_id' = d
    /\ pc' = "dep_add"
    /\ call' = Call("update_task_project", d, task_project_mapping[task_id], None)
    /\ UNCHANGED <<config, containers, deps, i, links_left, task_hierarchy, task_id,
                   task_start_date, predecessor_end_date, log>>

\* random.random() > 0.5 and random.choice(potential_dependent_tasks)
DependencyBranch ==
    /\ pc = "edge"
    /\ ~ExcludedTasks(task_hierarchy, task_id).hangs
    /\ \E d \in PotentialDependentTasks(task_hierarchy, task_project_mapping, task_id) :
          \/ DependencyCircular(d)
          \/ DependencyUpdateProject(d)

\* add_task_dependency(predecessor_id=dependent_task_id, successor_id=task_id)
\* and task_hierarchy[dependent_task_id].append(task_id)
DependencyAdd ==
    /\ pc = "dep_add"
    /\ deps' = AddTaskDependency(deps, tasks, dependent_task_id, task_id)
    /\ task_hierarchy' = [task_hierarchy EXCEPT
                              ![dependent_task_id] = Append(@, task_id)]
    /\ pc' = "dep_dates"
    /\ call' = Call("add_task_dependency", dependent_task_id, task_id, None)
    /\ UNCHANGED <<config, containers, tasks, i, links_left, task_project_mapping,
                   edge_locals, log>>

\* get_task_start_date, get_task_end_date, update_task_start_date.  Comparing
\* None raises TypeError, which nothing catches.
DependencyDates ==
    /\ pc = "dep_dates"
    /\ task_start_date' = GetTaskStartDate(tasks, task_id)
    /\ predecessor_end_date' = GetTaskEndDate(tasks, dependent_task_id)
    /\ IF task_start_date' = None \/ predecessor_end_date' = None
       THEN /\ pc' = "crashed"
            /\ call' = Call("get_task_end_date", dependent_task_id, NoTask,
                            predecessor_end_date')
            /\ UNCHANGED <<tasks, log>>
       ELSE /\ pc' = "recalc"
            /\ IF task_start_date' <= predecessor_end_date'
               THEN /\ tasks' = UpdateTaskStartDate(tasks, task_id,
                                  AdjustedStartDate(task_start_date', predecessor_end_date'))
                    /\ call' = Call("update_task_start_date", task_id, NoTask, None)
               ELSE /\ tasks' = tasks
                    /\ call' = Call("get_task_end_date", dependent_task_id, NoTask,
                                    predecessor_end_date')
            /\ log' = [kind |-> "depends", a |-> task_id, b |-> dependent_task_id]
    /\ UNCHANGED <<config, containers, deps, i, links_left, task_hierarchy,
                   task_project_mapping, task_id, dependent_task_id>>

\* elif random.random() > 0.7, and no other task in the project
HierarchyNoCandidate ==
    /\ pc = "edge"
    /\ PotentialChildTasks(task_project_mapping, task_id) = {}
    /\ pc' = "recalc"
    /\ EdgeLoopFrame

\* The task is among the collected entries: report, continue.
HierarchyCircular(c) ==
    /\ task_id \in ExistingParents(task_hierarchy, c).set
    /\ log' = [kind |-> "circular_hierarchy", a |-> task_id, b |-> c]
    /\ NextIteration
    /\ UNCHANGED <<tasks, deps, task_hierarchy, task_project_mapping, call>>

\* set_task_hierarchy(parent_id=task_id, child_id=child_task_id) and
\* task_hierarchy[task_id].append(child_task_id)
HierarchySet(c) ==
    /\ task_id \notin ExistingParents(task_hierarchy, c).set
    /\ tasks' = SetTaskHierarchy(tasks, task_id, c)
    /\ task_hierarchy' = [task_hierarchy EXCEPT ![task_id] = Append(@, c)]
    /\ log' = [kind |-> "parent", a |-> task_id, b |-> c]
    /\ pc' = "recalc"
    /\ call' = Call("set_task_hierarchy", task_id, c, None)
    /\ UNCHANGED <<config, containers, deps, i, links_left, task_project_mapping,
                   edge_locals>>

\* elif random.random() > 0.7 and random.choice(potential_child_tasks)
HierarchyBranch ==
    /\ pc = "edge"
    /\ \E c \in PotentialChildTasks(task_project_mapping, task_id) :
          IF ExistingParents(task_hierarchy, c).hangs
          THEN pc' = "hung" /\ EdgeLoopFrame
          ELSE \/ HierarchyCircular(c)
               \/ HierarchySet(c)

\* Neither random test passed.
NoEdge ==
    /\ pc = "edge"
    /\ pc' = "recalc"
    /\ EdgeLoopFrame

\* get_task_start_date, get_task_duration, update_task_end_date; next task.
\* None + timedelta and timedelta(days=None) raise TypeError, which nothing
\* catches.
RecalculateEndDate ==
    /\ pc = "recalc"
    /\ IF GetTaskStartDate(tasks, task_id) = None \/ GetTaskDuration(tasks, task_id) = None
       THEN /\ pc' = "crashed"
            /\ call' = Call("get_task_duration", task_id, NoTask,
                            GetTaskDuration(tasks, task_id))
            /\ UNCHANGED <<config, containers, tasks, i, links_left, edge_locals>>
       ELSE /\ tasks' = UpdateTaskEndDate(tasks, task_id,
                            RecalculatedEndDate(GetTaskStartDate(tasks, task_id),
                                                GetTaskDuration(tasks, task_id)))
            /\ call' = Call("update_task_end_date", task_id, NoTask, None)
            /\ NextIteration
    /\ UNCHANGED <<deps, task_hierarchy, task_project_mapping, log>>

Next ==
    \/ CreateResource
    \/ CreatePortfolio
    \/ CreateProgramme
    \/ CreateProject
    \/ NextCreationLoop
    \/ CreateTask
    \/ CreateTaskResourceLink
    \/ StartEdgeLoop
    \/ DependencyNoCandidate
    \/ DependencyBranch
    \/ DependencyAdd
    \/ DependencyDates
    \/ HierarchyNoCandidate
    \/ HierarchyBranch
    \/ NoEdge
    \/ RecalculateEndDate

Spec == Init /\ [][Next]_vars

SpecCycle == InitCycle /\ [][Next]_vars

\* every configuration of counts, on a fresh schema
SpecConfig == InitConfig /\ [][Next]_vars

\* positive counts, on a store that has handed out ids before
SpecUsed == InitUsed /\ [][Next]_vars

\* positive counts, on a store that holds the records of an earlier run
SpecRerun == InitRerun /\ [][Next]_vars

\* ------------------------------------------------------ the store's client
\* A client of DBOperations other than the generator: on a store holding one
\* resource and one project it adds tasks and links them with
\* set_task_hierarchy, then makes one more call, of any task operation, with
\* any id and value.  What a call does depends on the store and on its
\* arguments only, so these are all the calls the store can receive.

\* start_date and end_date values: unset, today, tomorrow
StoreDates == {None, 0, Day}

\* duration values: the column default, and half a day
StoreDurations == {DefaultDuration, 1}

\* the ids the client passes: every id handed out so far, and the next one
ClientIds == 1..(Len(tasks) + 1)

InitStore ==
    /\ nResources = 0
    /\ nPortfolios = 0
    /\ nProgrammes = 0
    /\ nProjects = 0
    /\ nTasks = 0
    /\ resources = <<SomeRow>>
    /\ portfolios = <<>>
    /\ programmes = <<>>
    /\ projects = <<SomeRow>>
    /\ tasks = <<>>
    /\ deps = {}
    /\ i = 0
    /\ links_left = 0
    /\ task_hierarchy = <<>>
    /\ task_project_mapping = <<>>
    /\ task_id = NoTask
    /\ dependent_task_id = NoTask
    /\ task_start_date = None
    /\ predecessor_end_date = None
    /\ pc = "client"
    /\ log = NoLog
    /\ call = NoCall

\* what no call of the client touches
ClientFrame ==
    UNCHANGED <<config, containers, deps, i, links_left, task_hierarchy,
                task_project_mapping, edge_locals, log>>

\* the duration given to add_task: none, or zero
ClientDurations == {None, 0}

\* add_task, for the one project or for one that does not exist
ClientAddTask ==
    /\ pc = "client"
    /\ Len(tasks) < StoreTasks
    /\ \E project_id \in 1..(Len(projects) + 1), start_date \in StoreDates,
          end_date \in StoreDates, duration \in ClientDurations :
         /\ tasks' = AddTask(tasks, projects, project_id, start_date, end_date, duration)
         /\ call' = Call("add_task", Len(tasks) + 1, project_id, None)
    /\ UNCHANGED pc
    /\ ClientFrame

\* set_task_hierarchy on two tasks of the store
ClientSetTaskHierarchy ==
    /\ pc = "client"
    /\ \E parent_id \in TaskIds, child_id \in TaskIds :
         /\ tasks' = SetTaskHierarchy(tasks, parent_id, child_id)
         /\ call' = Call("set_task_hierarchy", parent_id, child_id, None)
    /\ UNCHANGED pc
    /\ ClientFrame

\* the last call is one of the getters
CallGetter ==
    /\ pc = "client"
    /\ \E id \in ClientIds :
         \/ call' = Call("get_task_project_id", id, NoTask, GetTaskProjectId(tasks, id))
         \/ call' = Call("get_task_start_date", id, NoTask, GetTaskStartDate(tasks, id))
         \/ call' = Call("get_task_end_date", id, NoTask, GetTaskEndDate(tasks, id))
         \/ call' = Call("get_task_duration", id, NoTask, GetTaskDuration(tasks, id))
    /\ pc' = "returned"
    /\ UNCHANGED tasks
    /\ ClientFrame

CallUpdateTaskProject ==
    /\ pc = "client"
    /\ \E id \in ClientIds, project_id \in 1..(Len(projects) + 1) :
         /\ tasks' = UpdateTaskProject(tasks, id, project_id)
         /\ call' = Call("update_task_project", id, project_id, None)
    /\ pc' = "returned"
    /\ ClientFrame

CallUpdateTaskStartDate ==
    /\ pc = "client"
    /\ \E id \in ClientIds, new_start_date \in StoreDates \ {None} :
         /\ tasks' = UpdateTaskStartDate(tasks, id, new_start_date)
         /\ call' = Call("update_task_start_date", id, NoTask, None)
    /\ pc' = "returned"
    /\ ClientFrame

CallUpdateTaskEndDate ==
    /\ pc = "client"
    /\ \E id \in ClientIds, new_end_date \in StoreDates \ {None} :
         /\ tasks' = UpdateTaskEndDate(tasks, id, new_end_date)
         /\ call' = Call("update_task_end_date", id, NoTask, None)
    /\ pc' = "returned"
    /\ ClientFrame

CallUpdateTaskDuration ==
    /\ pc = "client"
    /\ \E id \in ClientIds, new_duration \in StoreDurations :
         /\ tasks' = UpdateTaskDuration(tasks, id, new_duration)
         /\ call' = Call("update_task_duration", id, NoTask, None)
    /\ pc' = "returned"
    /\ ClientFrame

CallSetTaskHierarchy ==
    /\ pc = "client"
    /\ \E parent_id \in ClientIds, child_id \in ClientIds :
         /\ tasks' = SetTaskHierarchy(tasks, parent_id, child_id)
         /\ call' = Call("set_task_hierarchy", parent_id, child_id, None)
    /\ pc' = "returned"
    /\ ClientFrame

CallRecalculateTaskEndTime ==
    /\ pc = "client"
    /\ tasks' = RecalculateTaskEndTime(tasks)
    /\ call' = Call("recalculate_task_end_time", NoTask, NoTask, None)
    /\ pc' = "returned"
    /\ ClientFrame

NextStore ==
    \/ ClientAddTask
    \/ ClientSetTaskHierarchy
    \/ CallGetter
    \/ CallUpdateTaskProject
    \/ CallUpdateTaskStartDate
    \/ CallUpdateTaskEndDate
    \/ CallUpdateTaskDuration
    \/ CallSetTaskHierarchy
    \/ CallRecalculateTaskEndTime

SpecStore == InitStore /\ [][NextStore]_vars

\* ---------------------------------------------------------- graph helpers
RECURSIVE ReachClosure(_, _)
ReachClosure(edges, nodes) ==
    LET more == nodes \cup {e[2] : e \in {x \in edges : x[1] \in nodes}}
    IN IF more = nodes THEN nodes ELSE ReachClosure(edges, more)

\* the nodes reachable from a over one edge or more
ReachableFrom(edges, a) ==
    ReachClosure(edges, {e[2] : e \in {x \in edges : x[1] = a}})

\* the stored hierarchy as parent -> child edges
ParentEdges ==
    {<<tasks[c].parent_id, c>> : c \in {x \in TaskIds : tasks[x].parent_id # NoTask}}

EdgeLoopBetweenIterations == pc \in {"edge", "done"}

AfterDependencyDates == pc = "recalc" /\ log.kind = "depends" /\ log.a = task_id

\* ------------------------------------------------------------------ claims
\* C1: at every point of generate_example_data the stored dependency edges
\* (predecessor -> successor) form an acyclic graph.
C1_DependencyGraphAcyclic ==
    \A t \in TaskIds : t \notin ReachableFrom(deps, t)

\* C2: at every point of generate_example_data following parent_id from any
\* task never returns to that task.
C2_HierarchyIsForest ==
    \A t \in TaskIds : t \notin ReachableFrom(ParentEdges, t)

\* C3: after each iteration of the edge loop and at the end, every stored
\* dependency edge (P -> S) has S.start_date >= P.end_date.
C3_SuccessorStartsAfterPredecessorEnds ==
    EdgeLoopBetweenIterations =>
        \A e \in deps : tasks[e[2]].start_date >= tasks[e[1]].end_date

\* C4: when generate_example_data has completed, every task has
\* end_date = start_date + duration (its stored duration).
C4_EndIsStartPlusDuration ==
    pc = "done" =>
        \A t \in TaskIds :
            tasks[t].end_date = tasks[t].start_date + tasks[t].duration

\* C5: when generate_example_data has completed, every child C of a parent P
\* has P.end_date >= C.end_date and P.start_date <= C.start_date.
C5_ParentSpansChildren ==
    pc = "done" =>
        \A c \in TaskIds :
            tasks[c].parent_id # NoTask =>
                /\ tasks[tasks[c].parent_id].end_date >= tasks[c].end_date
                /\ tasks[tasks[c].parent_id].start_date <= tasks[c].start_date

\* C6 (as claimed): applying the dependency (P -> S) leaves S.start_date at
\* max(S.start_date, P.end_date).
C6_StartIsMaxOfStartAndPredecessorEnd ==
    AfterDependencyDates =>
        tasks[task_id].start_date =
            IF task_start_date < predecessor_end_date
            THEN predecessor_end_date
            ELSE task_start_date

\* C6 (amended): applying the dependency (P -> S) leaves S.start_date at
\* P.end_date + 1 day when S.start_date <= P.end_date, and unchanged when
\* S.start_date > P.end_date.
C6_StartIsDayAfterPredecessorEnd ==
    AfterDependencyDates =>
        tasks[task_id].start_date =
            IF task_start_date <= predecessor_end_date
            THEN predecessor_end_date + Day
            ELSE task_start_date

\* a dependency was applied to a successor that started before its
\* predecessor ended, and the successor now starts the day after that end
C6_Witness ==
    /\ AfterDependencyDates
    /\ task_start_date < predecessor_end_date
    /\ tasks[task_id].start_date = predecessor_end_date + Day

\* C7: once the dependency date adjustment has been applied to (P, S), applying
\* it again with P unchanged leaves S.start_date as the first application left it.
C7_DependencyAdjustmentIdempotent ==
    AfterDependencyDates =>
        AdjustedStartDate(GetTaskStartDate(tasks, task_id),
                          GetTaskEndDate(tasks, dependent_task_id))
            = tasks[task_id].start_date

\* the first application moved the successor, and the predecessor still ends
\* where it did
C7_Witness ==
    /\ AfterDependencyDates
    /\ tasks[task_id].start_date # task_start_date
    /\ tasks[dependent_task_id].end_date = predecessor_end_date

\* C8: in every store state during and after generation every task with both
\* dates set has end_date >= start_date.
C8_EndNotBeforeStart ==
    \A t \in TaskIds :
        (tasks[t].start_date # None /\ tasks[t].end_date # None) =>
            tasks[t].end_date >= tasks[t].start_date

\* C9: the step that reports a circular dependency writes nothing to the
\* store, leaves task_hierarchy and task_project_mapping as they were, and
\* moves on to the next task (or ends the loop) without retrying the edge.
C9_RejectedEdgeChangesNothing ==
    [][(log' # log /\ log'.kind \in {"circular_dependency", "circular_hierarchy"}) =>
          /\ tasks' = tasks
          /\ deps' = deps
          /\ task_hierarchy' = task_hierarchy
          /\ task_project_mapping' = task_project_mapping
          /\ pc = "edge"
          /\ IF task_id < nTasks
             THEN pc' = "edge" /\ task_id' = task_id + 1
             ELSE pc' = "done"]_vars

\* a circular dependency was reported for the task the loop has just left,
\* and the refused edge is not in the store
C9_Witness ==
    /\ log.kind = "circular_dependency"
    /\ \/ pc = "edge" /\ log.a = task_id - 1
       \/ pc = "done" /\ log.a = nTasks
    /\ log.b \in Range(task_hierarchy[log.a])
    /\ <<log.b, log.a>> \notin deps

\* C10: no dependency edge is stored with predecessor_id = successor_id, and
\* no task is made its own parent (set_task_hierarchy is the only writer of
\* parent_id).
C10_NoSelfEdge ==
    /\ \A e \in deps : e[1] # e[2]
    /\ \A t \in TaskIds : tasks[t].parent_id # t
    /\ pc \in {"dep_add", "dep_dates"} => dependent_task_id # task_id

\* both kinds of edge have been created
C10_Witness ==
    /\ deps # {}
    /\ \E t \in TaskIds : tasks[t].parent_id # NoTask

\* C11: no two tasks A, B have both dependency edges (A -> B) and (B -> A) in
\* the store, and no two tasks are each other's parent.
C11_NoReverseEdge ==
    /\ \A e \in deps : e[1] # e[2] => <<e[2], e[1]>> \notin deps
    /\ \A a \in TaskIds, b \in TaskIds :
          (a # b /\ tasks[a].parent_id = b) => tasks[b].parent_id # a

\* the generator drew the reverse of a stored dependency edge and refused it
C11_Witness ==
    /\ log.kind = "circular_dependency"
    /\ <<log.a, log.b>> \in deps
    /\ <<log.b, log.a>> \notin deps

\* C12: set_task_hierarchy leaves the parent's end_date at the maximum of the
\* parent's own previous end_date and the end_dates of all its children, the
\* newly attached one included; the parent's end_date never moves earlier.
C12_ParentEndIsMaxWithOwnEnd ==
    [][(pc = "edge" /\ call'.op = "set_task_hierarchy") =>
          LET parent_id == call'.a
              children == {x \in TaskIds : tasks'[x].parent_id = parent_id}
          IN /\ tasks'[parent_id].end_date =
                   SetMax({tasks[parent_id].end_date}
                          \cup {tasks'[x].end_date : x \in children})
             /\ tasks'[parent_id].end_date >= tasks[parent_id].end_date]_vars

\* C13: when set_task_hierarchy is called on two different tasks of the store, unset
\* dates are left out: the child's parent_id is the parent, and the parent's
\* end_date is the maximum over the children whose end_date is set.
C13_UnsetDatesAreExcluded ==
    (/\ pc = "returned"
     /\ call.op = "set_task_hierarchy"
     /\ call.a # call.b
     /\ RowExists(tasks, call.a)
     /\ RowExists(tasks, call.b)) =>
        LET ends == {tasks[x].end_date : x \in {y \in TaskIds :
                        tasks[y].parent_id = call.a /\ tasks[y].end_date # None}}
        IN /\ tasks[call.b].parent_id = call.a
           /\ ends # {} => tasks[call.a].end_date = SetMax(ends)

\* C14: when generate_example_data has completed, the two tasks of every
\* stored dependency edge (P -> S) have the same project_id.
C14_DependencyWithinProject ==
    pc = "done" =>
        \A e \in deps : tasks[e[1]].project_id = tasks[e[2]].project_id

\* a run has completed with a dependency edge in one project and a task in
\* another
C14_Witness ==
    /\ pc = "done"
    /\ \E e \in deps, t \in TaskIds :
          tasks[t].project_id # tasks[e[1]].project_id

\* C15: no failed store call aborts generate_example_data: with every count
\* positive, whatever the store answers, no exception leaves the run.
C15_FailedStoreCallDoesNotAbort ==
    pc # "crashed"

\* C16: when update_task_start_date or update_task_duration returns from
\* changing a task, the task's end_date is its start_date plus its duration.
C16_UpdateRecomputesEnd ==
    (/\ pc = "returned"
     /\ call.op \in {"update_task_start_date", "update_task_duration"}
     /\ RowExists(tasks, call.a)
     /\ tasks[call.a].start_date # None) =>
        tasks[call.a].end_date = tasks[call.a].start_date + tasks[call.a].duration

\* the phase of generate_example_data a store call belongs to
CallPhase(op) ==
    CASE op = "none" -> 0
      [] op = "add_resource" -> 1
      [] op = "add_portfolio" -> 2
      [] op = "add_programme" -> 3
      [] op \in {"add_project", "add_project_gantt_permissions",
                 "add_gantt_user_project_view_options"} -> 4
      [] op = "add_task" -> 5
      [] op = "add_task_resource_link" -> 6
      [] op \in {"update_task_project", "add_task_dependency", "get_task_end_date",
                 "update_task_start_date", "set_task_hierarchy"} -> 7
      [] op \in {"get_task_duration", "update_task_end_date"} -> 8

\* C17: the store calls of generate_example_data come in phase order:
\* resource creations, portfolio creations, programme creations, project
\* creations, all task creations, then all task-resource links, then all edge
\* creations, and only after the last of these the end-date recalculations.
C17_CallsInPhaseOrder ==
    [][CallPhase(call'.op) >= CallPhase(call.op)]_vars

\* C18: for every configuration of non-negative counts, zero included, on a
\* fresh schema, no exception leaves generate_example_data, and when it has
\* completed it has issued exactly the configured number of resource,
\* portfolio, programme, project and task creations.
C18_EveryConfigurationCompletes ==
    /\ pc # "crashed"
    /\ pc = "done" =>
          /\ Len(resources) = nResources
          /\ Len(portfolios) = nPortfolios
          /\ Len(programmes) = nProgrammes
          /\ Len(projects) = nProjects
          /\ Len(tasks) = nTasks

TaskGetters ==
    {"get_task_project_id", "get_task_start_date", "get_task_end_date",
     "get_task_duration"}

\* the last call was given the id of no task
CallOnMissingTask ==
    /\ pc = "returned"
    /\ call.op \in TaskGetters \cup {"update_task_project", "update_task_start_date",
                      "update_task_end_date", "update_task_duration",
                      "set_task_hierarchy"}
    /\ \/ ~RowExists(tasks, call.a)
       \/ call.op = "set_task_hierarchy" /\ ~RowExists(tasks, call.b)

\* C20: a call given an id that names no task changes nothing in the store,
\* and when it is one of the getters it returns None.
C20_MissingTaskIsNoOp ==
    [][(/\ pc = "client"
        /\ pc' = "returned"
        /\ \/ ~RowExists(tasks, call'.a)
           \/ call'.op = "set_task_hierarchy" /\ ~RowExists(tasks, call'.b)) =>
          /\ tasks' = tasks
          /\ deps' = deps
          /\ call'.op \in TaskGetters => call'.result = None]_vars

\* update_task_project was called with the id of no task on a store that
\* holds a task
C20_Witness ==
    /\ CallOnMissingTask
    /\ call.op = "update_task_project"
    /\ TaskIds # {}

\* C21: a call of set_task_hierarchy either leaves the store exactly as it
\* was, or applies all of its writes: the child's parent_id is the parent, the
\* child starts no earlier than the parent (and where it did before, unless
\* clamped), the parent's end_date is the latest end_date set among its
\* children, and no other task is touched.
C21_SetTaskHierarchyIsAtomic ==
    [][(pc = "client" /\ pc' = "returned" /\ call'.op = "set_task_hierarchy") =>
          LET parent_id == call'.a
              child_id == call'.b
              ends == {tasks'[x].end_date : x \in {y \in 1..Len(tasks') :
                          /\ tasks'[y] # NoRow
                          /\ tasks'[y].parent_id = parent_id
                          /\ tasks'[y].end_date # None}}
          IN \/ tasks' = tasks
             \/ /\ RowExists(tasks, parent_id) /\ RowExists(tasks, child_id)
                /\ tasks'[child_id].parent_id = parent_id
                /\ tasks'[child_id].start_date =
                       IF tasks[child_id].start_date < tasks[parent_id].start_date
                       THEN tasks[parent_id].start_date
                       ELSE tasks[child_id].start_date
                /\ tasks'[parent_id].end_date =
                       IF ends = {} THEN None ELSE SetMax(ends)
                /\ \A x \in 1..Len(tasks) :
                       x \notin {parent_id, child_id} => tasks'[x] = tasks[x]]_vars

\* set_task_hierarchy was called on two different tasks of the store, one of
\* them without a start_date, and the child has not got the parent
C21_Witness ==
    /\ pc = "returned"
    /\ call.op = "set_task_hierarchy"
    /\ call.a # call.b
    /\ RowExists(tasks, call.a)
    /\ RowExists(tasks, call.b)
    /\ tasks[call.b].start_date = None
    /\ tasks[call.b].parent_id # call.a

\* the dependency branch would not add the edge (d -> t): d is excluded from
\* the candidates, or the edge is reported as circular
DependencyRefused(t, d) ==
    \/ d \notin PotentialDependentTasks(task_hierarchy, task_project_mapping, t)
    \/ CircularDependency(task_hierarchy, t, d)

\* the hierarchy branch would not make t the parent of c
HierarchyRefused(t, c) ==
    t \in ExistingParents(task_hierarchy, c).set

\* C22: when an iteration of the edge loop starts for task t, every other
\* task d of t's project is refused as predecessor of t exactly when d is
\* reachable from t over the stored dependency edges, and every other task c
\* of t's project is refused as child of t exactly when t is reachable from c
\* over the stored parent -> child edges.
C22_CycleCheckIsReachability ==
    pc = "edge" =>
        \A x \in SameProjectTaskIds(task_project_mapping, task_id) \ {task_id} :
            /\ ~ExcludedTasks(task_hierarchy, task_id).hangs =>
                   (DependencyRefused(task_id, x)
                        <=> x \in ReachableFrom(deps, task_id))
            /\ ~ExistingParents(task_hierarchy, x).hangs =>
                   (HierarchyRefused(task_id, x)
                        <=> task_id \in ReachableFrom(ParentEdges, x))

\* C23: when recalculate_task_end_time returns, every task that has a
\* start_date and a duration, a duration of 0 included, has end_date =
\* start_date + duration, and every other task is as it was.
C23_RecalculateSetsEveryEnd ==
    [][(pc = "client" /\ pc' = "returned"
            /\ call'.op = "recalculate_task_end_time") =>
          \A t \in TaskIds :
              IF tasks[t].start_date # None /\ tasks[t].duration # None
              THEN tasks'[t].end_date =
                       DatePlusTimedelta(tasks[t].start_date, tasks[t].duration)
              ELSE tasks'[t] = tasks[t]]_vars

\* C24: right after the generator has created a task, the task is stored
\* with the duration that was drawn for it (a number of half days), and its
\* end_date is its start_date plus that stored duration.
C24_CreatedWithDrawnDuration ==
    (pc = "links" /\ call.op = "add_task") =>
        \E steps \in 1..MaxDurSteps :
            /\ tasks[call.a].duration = steps
            /\ tasks[call.a].end_date = FinishDate(tasks[call.a].start_date, steps)
            /\ tasks[call.a].end_date =
                   DatePlusTimedelta(tasks[call.a].start_date, tasks[call.a].duration)

\* C25: during a run every task is the successor of at most one stored
\* dependency edge, and a parent_id that has been set is never replaced.
C25_OnePredecessorOneParent ==
    [][/\ \A t \in TaskIds : Cardinality({e \in deps' : e[2] = t}) <= 1
       /\ \A t \in TaskIds :
              tasks[t].parent_id # NoTask =>
                  tasks'[t].parent_id = tasks[t].parent_id]_vars

\* the edges the two while loops follow: from a task to the first entry of
\* its list
FirstEntryEdges ==
    {<<u, task_hierarchy[u][1]>> :
        u \in {x \in DOMAIN task_hierarchy : task_hierarchy[x] # <<>>}}

\* C26: the first-entry graph never holds a cycle, and neither while loop of
\* generate_example_data runs without end.
C26_WalksTerminate ==
    /\ \A t \in DOMAIN task_hierarchy : t \notin ReachableFrom(FirstEntryEdges, t)
    /\ pc # "hung"

\* an iteration starts for a task whose walk passed three tasks and ended at
\* an empty list
C26_Witness ==
    /\ pc = "edge"
    /\ ~ExcludedTasks(task_hierarchy, task_id).hangs
    /\ Cardinality(ExcludedTasks(task_hierarchy, task_id).set) > 2

\* C27: between the iterations of the edge loop and at the end, v is listed
\* in task_hierarchy[u] exactly when the store holds the dependency edge
\* (u -> v) or task v has parent_id u.
C27_ViewAgreesWithStore ==
    EdgeLoopBetweenIterations =>
        \A u \in DOMAIN task_hierarchy, v \in DOMAIN task_hierarchy :
            v \in Range(task_hierarchy[u])
                <=> \/ <<u, v>> \in deps
                    \/ RowExists(tasks, v) /\ tasks[v].parent_id = u

\* the ids of a table's rows that the run under way has inserted, given how
\* many inserts it has made
CreatedThisRun(rows, created) == (Len(rows) - created + 1)..Len(rows)

\* how many resources, projects and tasks the run has created so far
ResourcesCreated == IF pc = "resources" THEN i ELSE nResources

ProjectsCreated ==
    IF pc \in {"resources", "portfolios", "programmes"} THEN 0
    ELSE IF pc = "projects" THEN i ELSE nProjects

TasksCreated ==
    IF pc \in {"resources", "portfolios", "programmes", "projects"} THEN 0 ELSE i

\* the ids the last store call was given
TaskIdsPassed ==
    IF call.op \in {"add_task_dependency", "set_task_hierarchy"}
    THEN {call.a, call.b}
    ELSE IF call.op \in TaskGetters \cup
                {"add_task_resource_link", "update_task_project",
                 "update_task_start_date", "update_task_end_date"}
    THEN {call.a}
    ELSE {}

ProjectIdsPassed ==
    IF call.op \in {"add_task", "update_task_project"} THEN {call.b}
    ELSE IF call.op = "add_gantt_user_project_view_options" THEN {call.a}
    ELSE {}

ResourceIdsPassed ==
    IF call.op \in {"add_portfolio", "add_gantt_user_project_view_options",
                    "add_task_resource_link"}
    THEN {call.b}
    ELSE {}

\* C28: every task, project and resource id that generate_example_data
\* passes to a store call is the id of a record that this run has created,
\* also on a store that held records before the run.
C28_IdsAreOfThisRun ==
    pc \notin {"crashed", "hung"} =>
        /\ TaskIdsPassed \subseteq CreatedThisRun(tasks, TasksCreated)
        /\ ProjectIdsPassed \subseteq CreatedThisRun(projects, ProjectsCreated)
        /\ ResourceIdsPassed \subseteq CreatedThisRun(resources, ResourcesCreated)

\* C29: no step of generate_example_data moves a task's start_date to an
\* earlier date, and the update_task_start_date of the dependency branch
\* moves it to a strictly later one.
C29_StartNeverMovesEarlier ==
    [][/\ \A t \in TaskIds : tasks'[t].start_date >= tasks[t].start_date
       /\ (pc = "dep_dates" /\ call'.op = "update_task_start_date") =>
              tasks'[task_id].start_date > tasks[task_id].start_date]_vars

\* the dependency branch has moved the task's start_date, and the task is
\* the child of another task
C29_Witness ==
    /\ AfterDependencyDates
    /\ call.op = "update_task_start_date"
    /\ tasks[task_id].parent_id # NoTask
    /\ tasks[task_id].start_date > tasks[tasks[task_id].parent_id].start_date

\* C30: a step of the edge-loop iteration for task t leaves every stored
\* task other than t as it was, except the child that the hierarchy branch
\* has just passed to set_task_hierarchy; so the predecessor of a new
\* dependency edge keeps its start_date, end_date, duration and project_id.
C30_IterationTouchesOwnTaskOnly ==
    [][(pc \in {"edge", "dep_add", "dep_dates", "recalc"}) =>
          \A x \in TaskIds \ {task_id} :
              (\/ tasks'[x] = tasks[x]
               \/ /\ pc = "edge"
                  /\ call'.op = "set_task_hierarchy"
                  /\ call'.a = task_id
                  /\ call'.b = x)]_vars

\* update_task_project has been called for the predecessor of the task, and
\* the predecessor is in the project it was given
C30_Witness ==
    /\ pc = "dep_add"
    /\ call.op = "update_task_project"
    /\ call.a = dependent_task_id
    /\ call.a # task_id
    /\ tasks[call.a].project_id = call.b

====
